---- MODULE Spec2Model ----
(***************************************************************************)
(* Range specification language and progress-guarded batch loop of         *)
(* scripts/mad3d/convert_mesh_to_usd_occ.py and                            *)
(* source/isaaclab/isaaclab/utils/io/range.py.                             *)
(*                                                                         *)
(* A Python str is a sequence of characters; a character is one of the     *)
(* names in Alphabet.  "LF" is the newline character U+000A and "U3" is    *)
(* U+0663 ARABIC-INDIC DIGIT THREE, a decimal digit that is not ASCII.     *)
(***************************************************************************)
EXTENDS Integers, Sequences, FiniteSets

\* ------------------------------------------------------------------ bounds

\* longest argument string handed to split_prefix_num / expand_range
MaxLen == 7
\* longest run of decimal digits in such an argument
MaxDigits == 3
\* longest --subdirs argument of a run of main
MaxArgLen == 5
\* most files the glob discovers in a run of main
MaxFiles == 3

\* --------------------------------------------------------------- characters

Alphabet == {"a", ".", "0", "1", "LF", "U3"}

\* characters of the --subdirs arguments tried in runs of main
ArgAlphabet == {".", "0", "1", "LF"}

\* the class \d of a str pattern: every Unicode decimal digit
IsDigit(c) == c \in {"0", "1", "U3"}

\* int() of one decimal digit
DigitValue(c) == CASE c = "0" -> 0 [] c = "1" -> 1 [] c = "U3" -> 3

\* str.isspace of one character
IsSpace(c) == c = "LF"

\* no run of decimal digits in t is longer than n
DigitRunsWithin(t, n) ==
    \A k \in 1..(Len(t) - n) : \E j \in k..(k + n) : ~IsDigit(t[j])

\* the strings of length k over an alphabet
StringsOfLen(alphabet, k) == [1..k -> alphabet]

Max(x, y) == IF x >= y THEN x ELSE y

\* ------------------------------------------------------- split_prefix_num

\* the value None of a number that is absent
None == -1

\* int(digits) for a run of decimal digits
RECURSIVE int(_)
int(digits) ==
    IF digits = <<>> THEN 0
    ELSE 10 * int(SubSeq(digits, 1, Len(digits) - 1)) + DigitValue(digits[Len(digits)])

\* the position $ matches at: the end of s, or just before a final newline
\* (a digit run cannot reach the end of s through the newline)
DollarEnd(s) == IF s # <<>> /\ s[Len(s)] = "LF" THEN Len(s) - 1 ELSE Len(s)

\* re.search(r'(\d+)$', s): the leftmost start of a digit run that ends where
\* $ matches; 0 when there is no match
SearchStart(s) ==
    LET e == DollarEnd(s)
        starts == {k \in 1..e : \A j \in k..e : IsDigit(s[j])}
    IN  IF starts = {} THEN 0 ELSE CHOOSE k \in starts : \A j \in starts : k <= j

split_prefix_num(s) ==
    LET st == SearchStart(s)
        group == SubSeq(s, st, DollarEnd(s))
    IN  IF st = 0
        THEN [prefix |-> s, num |-> None, width |-> 0]
        ELSE [prefix |-> SubSeq(s, 1, st - 1), num |-> int(group), width |-> Len(group)]

\* ------------------------------------------------------------ expand_range

Raise(msg) == [kind |-> "raise", exc |-> "ValueError", msg |-> msg]
Return(v) == [kind |-> "return", value |-> v]

\* positions at which the substring '..' occurs in s
SepPositions(s) == {k \in 1..(Len(s) - 1) : s[k] = "." /\ s[k + 1] = "."}

FirstSep(s) == CHOOSE k \in SepPositions(s) : \A j \in SepPositions(s) : k <= j

\* spec.split('..', 1)
SplitLeft(s) == SubSeq(s, 1, FirstSep(s) - 1)
SplitRight(s) == SubSeq(s, FirstSep(s) + 2, Len(s))

\* str(i) for i >= 0
RECURSIVE str(_)
str(i) ==
    LET d == <<"0", "1", "2", "3", "4", "5", "6", "7", "8", "9">>[(i % 10) + 1]
    IN  IF i < 10 THEN <<d>> ELSE str(i \div 10) \o <<d>>

\* a zfill that never pads
zfill_unpadded(digits, width) == digits

\* str.zfill(width) of a digit string
RECURSIVE zfill(_, _)
zfill(digits, width) ==
    IF Len(digits) >= width THEN digits ELSE zfill(<<"0">> \o digits, width)

\* range(a, b) with the right endpoint included
range_inclusive(a, b) == [k \in 1..(b - a + 1) |-> a + k - 1]

\* list(range(a, b)) for a <= b
range(a, b) == [k \in 1..(b - a) |-> a + k - 1]

\* expand_range with the order test or the prefix test changed
expand_range_variant(spec, strictOrder, comparePrefixes) ==
    IF SepPositions(spec) = {} THEN Raise("Range must contain '..'")
    ELSE
    LET t1 == split_prefix_num(SplitLeft(spec))
        t2 == split_prefix_num(SplitRight(spec))
        width == Max(t1.width, t2.width)
    IN  IF t1.num = None \/ t2.num = None
            THEN Raise("Both endpoints must end with a number")
        ELSE IF comparePrefixes /\ t1.prefix # t2.prefix THEN Raise("Prefixes differ")
        ELSE IF t1.num > t2.num \/ (strictOrder /\ t1.num = t2.num)
            THEN Raise("Start is greater than end")
        ELSE Return([k \in 1..(t2.num - t1.num) |->
                        t1.prefix \o zfill(str(t1.num + k - 1), width)])

\* expand_range raising when start >= end
expand_range_strict(spec) == expand_range_variant(spec, TRUE, TRUE)

\* expand_range without the comparison of the prefixes
expand_range_any_prefix(spec) == expand_range_variant(spec, FALSE, FALSE)

expand_range(spec) ==
    IF SepPositions(spec) = {} THEN Raise("Range must contain '..'")
    ELSE
    LET t1 == split_prefix_num(SplitLeft(spec))
        t2 == split_prefix_num(SplitRight(spec))
        width == Max(t1.width, t2.width)
    IN  IF t1.num = None \/ t2.num = None
            THEN Raise("Both endpoints must end with a number")
        ELSE IF t1.prefix # t2.prefix THEN Raise("Prefixes differ")
        ELSE IF t1.num > t2.num THEN Raise("Start is greater than end")
        ELSE LET r == range(t1.num, t2.num)
             IN  Return([k \in 1..Len(r) |-> t1.prefix \o zfill(str(r[k]), width)])

\* ------------------------------------------------------------------- state

VARIABLES
    s,              \* the argument of the function call under test
    rpc,            \* "ready" before that call, then the name of the function called
    token,          \* what split_prefix_num(s) returned
    result,         \* what expand_range(s) returned or raised
    subdirs,        \* args_cli.subdirs
    found,          \* the files under args_cli.input, in the order glob yields them
    meshes_path,    \* main's list of files, each given by its top-level segment
    allowed,        \* main's set of allowed top-level names
    builtins_print, \* the process-wide builtins.print
    original_print, \* main's saved print
    pc,             \* the statement of main that runs next
    i,              \* items the loop has taken from tqdm(meshes_path[start:])
    log,            \* the print calls and run_convert calls made so far
    exc,            \* the exception in flight
    entry_print     \* history: builtins.print when main was entered

vars == <<s, rpc, token, result, subdirs, found, meshes_path, allowed,
          builtins_print, original_print, pc, i, log, exc, entry_print>>

rangeVars == <<s, rpc, token, result>>
mainVars == <<subdirs, found, meshes_path, allowed, builtins_print,
              original_print, pc, i, log, exc, entry_print>>

NotCalled == [kind |-> "none"]

\* args_cli.subdirs when --subdirs is omitted (default=None)
Unset == <<"None">>

\* top-level directories of the input root
Dirs == {<<"0">>, <<"0", "1">>}

\* the values builtins.print can have when main starts
Printers == {"print", "host_print"}

\* a local variable of main that is not bound yet
Unassigned == "unassigned"

\* the local variable allowed before line 171 binds it
NoNames == {<<"unassigned">>}

MainIdle ==
    /\ subdirs = Unset
    /\ found = <<>>
    /\ meshes_path = <<>>
    /\ allowed = NoNames
    /\ builtins_print = "print"
    /\ original_print = Unassigned
    /\ pc = "idle"
    /\ i = 0
    /\ log = <<>>
    /\ exc = "none"
    /\ entry_print = "print"

RangeIdle ==
    /\ s = <<>>
    /\ rpc = "idle"
    /\ token = NotCalled
    /\ result = NotCalled

\* ----------------------------------------------- calls of the two functions

InitRange ==
    /\ \E k \in 0..MaxLen :
          s \in {t \in StringsOfLen(Alphabet, k) : DigitRunsWithin(t, MaxDigits)}
    /\ rpc = "ready"
    /\ token = NotCalled
    /\ result = NotCalled
    /\ MainIdle

CallSplitPrefixNum ==
    /\ rpc = "ready"
    /\ rpc' = "split_prefix_num"
    /\ token' = split_prefix_num(s)
    /\ UNCHANGED <<s, result>>
    /\ UNCHANGED mainVars

CallExpandRange ==
    /\ rpc = "ready"
    /\ rpc' = "expand_range"
    /\ result' = expand_range(s)
    /\ UNCHANGED <<s, token>>
    /\ UNCHANGED mainVars

NextRange == CallSplitPrefixNum \/ CallExpandRange

SpecRange == InitRange /\ [][NextRange]_vars

\* -------------------------------------------------------------------- main

\* str.strip()
RECURSIVE strip(_)
strip(t) ==
    IF t = <<>> THEN t
    ELSE IF IsSpace(t[1]) THEN strip(Tail(t))
    ELSE IF IsSpace(t[Len(t)]) THEN strip(SubSeq(t, 1, Len(t) - 1))
    ELSE t

\* the slice offset of the loop
start == 0

\* a call of print(text ... arg), routed to the current builtins.print
PrintCall(text, arg) ==
    [op |-> "print", text |-> text, arg |-> arg, via |-> builtins_print, outcome |-> "returned"]

\* a call of run_convert on job k; its print calls go to the current builtins.print
RunConvertCall(k, outcome) ==
    [op |-> "run_convert", text |-> "", arg |-> k, via |-> builtins_print, outcome |-> outcome]

Init ==
    /\ RangeIdle
    /\ \/ subdirs = Unset
       \/ \E k \in 0..MaxArgLen : subdirs \in StringsOfLen(ArgAlphabet, k)
    /\ \E k \in 0..MaxFiles : found \in StringsOfLen(Dirs, k)
    /\ meshes_path = <<>>
    /\ allowed = NoNames
    /\ builtins_print \in Printers
    /\ original_print = Unassigned
    /\ pc = "glob"
    /\ i = 0
    /\ log = <<>>
    /\ exc = "none"
    /\ entry_print = builtins_print

\* lines 164-167: meshes_path collects what glob finds
Glob ==
    /\ pc = "glob"
    /\ meshes_path' = found
    /\ pc' = "subdirs"
    /\ UNCHANGED <<subdirs, found, allowed, builtins_print, original_print, i, log, exc>>
    /\ UNCHANGED <<rangeVars, entry_print>>

\* bool(args_cli.subdirs)
Truthy(v) == v # Unset /\ v # <<>>

\* line 169 false: no filter
NoSubdirs ==
    /\ pc = "subdirs"
    /\ ~Truthy(subdirs)
    /\ pc' = "swap"
    /\ UNCHANGED <<subdirs, found, meshes_path, allowed, builtins_print,
                   original_print, i, log, exc>>
    /\ UNCHANGED <<rangeVars, entry_print>>

\* lines 170-171: expand_range raises, and the error leaves main
SubdirsInvalid ==
    /\ pc = "subdirs"
    /\ Truthy(subdirs)
    /\ expand_range(strip(subdirs)).kind = "raise"
    /\ exc' = expand_range(strip(subdirs)).exc
    /\ pc' = "raised"
    /\ UNCHANGED <<subdirs, found, meshes_path, allowed, builtins_print,
                   original_print, i, log>>
    /\ UNCHANGED <<rangeVars, entry_print>>

\* lines 174-179
Filtered(paths, names) ==
    LET keep(top) == top \in names IN SelectSeq(paths, keep)

\* lines 170-180: the filter by the expanded names
FilterSubdirs ==
    /\ pc = "subdirs"
    /\ Truthy(subdirs)
    /\ expand_range(strip(subdirs)).kind = "return"
    /\ LET names == expand_range(strip(subdirs)).value
           set == {names[k] : k \in 1..Len(names)}
       IN  /\ allowed' = set
           /\ log' = Append(log, PrintCall("Looking in subdirectories", 0))
           /\ meshes_path' = IF set # {} THEN Filtered(meshes_path, set) ELSE meshes_path
    /\ pc' = "swap"
    /\ UNCHANGED <<subdirs, found, builtins_print, original_print, i, exc>>
    /\ UNCHANGED <<rangeVars, entry_print>>

\* the swap that saves the print primitive and installs nothing
SwapPrint_not_installed ==
    /\ pc = "swap"
    /\ original_print' = builtins_print
    /\ pc' = "total"
    /\ UNCHANGED <<subdirs, found, meshes_path, allowed, builtins_print, i, log, exc>>
    /\ UNCHANGED <<rangeVars, entry_print>>

\* lines 182-186: save the print primitive and install tqdm.write
SwapPrint ==
    /\ pc = "swap"
    /\ original_print' = builtins_print
    /\ builtins_print' = "tqdm.write"
    /\ pc' = "total"
    /\ UNCHANGED <<subdirs, found, meshes_path, allowed, i, log, exc>>
    /\ UNCHANGED <<rangeVars, entry_print>>

\* line 189
PrintTotal ==
    /\ pc = "total"
    /\ log' = Append(log, PrintCall("Number of files to convert", Len(meshes_path)))
    /\ pc' = "loop"
    /\ UNCHANGED <<subdirs, found, meshes_path, allowed, builtins_print,
                   original_print, i, exc>>
    /\ UNCHANGED <<rangeVars, entry_print>>

\* meshes_path[start:]
Jobs == SubSeq(meshes_path, start + 1, Len(meshes_path))

\* lines 191-197, run_convert returns
RunConvertReturns ==
    /\ pc = "loop"
    /\ i < Len(Jobs)
    /\ log' = Append(log, RunConvertCall(i + 1, "returned"))
    /\ i' = i + 1
    /\ UNCHANGED <<subdirs, found, meshes_path, allowed, builtins_print,
                   original_print, pc, exc>>
    /\ UNCHANGED <<rangeVars, entry_print>>

\* run_convert raises in a loop without try/finally: the error leaves main at once
RunConvertRaises_unguarded ==
    /\ pc = "loop"
    /\ i < Len(Jobs)
    /\ log' = Append(log, RunConvertCall(i + 1, "raised"))
    /\ i' = i + 1
    /\ exc' = "ItemProcessingError"
    /\ pc' = "raised"
    /\ UNCHANGED <<subdirs, found, meshes_path, allowed, builtins_print, original_print>>
    /\ UNCHANGED <<rangeVars, entry_print>>

\* run_convert raises and the loop swallows the error and goes on
RunConvertRaises_swallowed ==
    /\ pc = "loop"
    /\ i < Len(Jobs)
    /\ log' = Append(log, RunConvertCall(i + 1, "raised"))
    /\ i' = i + 1
    /\ UNCHANGED <<subdirs, found, meshes_path, allowed, builtins_print,
                   original_print, pc, exc>>
    /\ UNCHANGED <<rangeVars, entry_print>>

\* lines 191-197, run_convert raises: control goes to the finally clause
RunConvertRaises ==
    /\ pc = "loop"
    /\ i < Len(Jobs)
    /\ log' = Append(log, RunConvertCall(i + 1, "raised"))
    /\ i' = i + 1
    /\ exc' = "ItemProcessingError"
    /\ pc' = "finally"
    /\ UNCHANGED <<subdirs, found, meshes_path, allowed, builtins_print, original_print>>
    /\ UNCHANGED <<rangeVars, entry_print>>

\* line 191: the iterator is exhausted
LoopExit ==
    /\ pc = "loop"
    /\ i = Len(Jobs)
    /\ pc' = "finally"
    /\ UNCHANGED <<subdirs, found, meshes_path, allowed, builtins_print,
                   original_print, i, log, exc>>
    /\ UNCHANGED <<rangeVars, entry_print>>

\* lines 198-199: restore the print primitive, then return or re-raise
Finally ==
    /\ pc = "finally"
    /\ builtins_print' = original_print
    /\ pc' = IF exc = "none" THEN "done" ELSE "raised"
    /\ UNCHANGED <<subdirs, found, meshes_path, allowed, original_print, i, log, exc>>
    /\ UNCHANGED <<rangeVars, entry_print>>

Next ==
    \/ Glob
    \/ NoSubdirs
    \/ SubdirsInvalid
    \/ FilterSubdirs
    \/ SwapPrint
    \/ PrintTotal
    \/ RunConvertReturns
    \/ RunConvertRaises
    \/ LoopExit
    \/ Finally

Spec == Init /\ [][Next]_vars

\* ------------------------------------------------ reading of the claims

\* the ASCII digits among the characters
AsciiDigits == {"0", "1"}

\* the decimal digits of a rendered number, by value
Decimal == <<"0", "1", "2", "3", "4", "5", "6", "7", "8", "9">>

IsDecimalRun(d) == d # <<>> /\ \A k \in 1..Len(d) : \E v \in 1..10 : Decimal[v] = d[k]

\* the number a run of ASCII digits denotes
RECURSIVE DecimalValue(_)
DecimalValue(d) ==
    IF d = <<>> THEN 0
    ELSE 10 * DecimalValue(SubSeq(d, 1, Len(d) - 1))
         + ((CHOOSE v \in 1..10 : Decimal[v] = d[Len(d)]) - 1)

\* length of the maximal trailing run of ASCII digits of t
AsciiRunLen(t) ==
    LET runs == {w \in 0..Len(t) : \A j \in (Len(t) - w + 1)..Len(t) : t[j] \in AsciiDigits}
    IN  CHOOSE w \in runs : \A v \in runs : v <= w

AsciiRun(t) == SubSeq(t, Len(t) - AsciiRunLen(t) + 1, Len(t))
AsciiPrefix(t) == SubSeq(t, 1, Len(t) - AsciiRunLen(t))

Sep == <<".", ".">>

\* the ways to read t as <p><d1>..<p><d2>: p a non-numeric prefix (it does not
\* end with a decimal digit), d1 and d2 non-empty runs of ASCII digits
FormsOf(t) ==
    {f \in {[p |-> AsciiPrefix(SubSeq(t, 1, k - 1)),
             d1 |-> AsciiRun(SubSeq(t, 1, k - 1)),
             d2 |-> AsciiRun(SubSeq(t, k + 2, Len(t))),
             p2 |-> AsciiPrefix(SubSeq(t, k + 2, Len(t)))] : k \in SepPositions(t)} :
        /\ f.d1 # <<>>
        /\ f.d2 # <<>>
        /\ f.p = f.p2
        /\ (f.p = <<>> \/ ~IsDigit(f.p[Len(f.p)]))}

Expanded == rpc = "expand_range"
Accepted == Expanded /\ result.kind = "return"
Rejected == Expanded /\ result.kind = "raise" /\ result.exc = "ValueError"

\* C1: an accepted spec <p><d1>..<p><d2> expands to exactly the ascending
\* sequence p + zero_pad(i, max(len(d1), len(d2))) for i = n1 .. n2 - 1: it has
\* n2 - n1 elements, starts at the left endpoint and never holds the right one.
C1_HalfOpenRange ==
    Accepted =>
        \A f \in FormsOf(s) :
            LET n1 == DecimalValue(f.d1)
                n2 == DecimalValue(f.d2)
                w == Max(Len(f.d1), Len(f.d2))
                out == result.value
            IN  /\ n1 <= n2
                /\ Len(out) = n2 - n1
                /\ \A k \in 1..Len(out) :
                      LET digits == SubSeq(out[k], Len(f.p) + 1, Len(out[k]))
                      IN  /\ SubSeq(out[k], 1, Len(f.p)) = f.p
                          /\ Len(digits) = w
                          /\ IsDecimalRun(digits)
                          /\ DecimalValue(digits) = n1 + k - 1
                          /\ DecimalValue(digits) # n2
                /\ (n1 < n2 => out[1] = f.p \o zfill(f.d1, w))

\* a spec with a non-empty prefix and a right endpoint wider than the left one
\* was expanded to several names
C1_Witness ==
    /\ Accepted
    /\ \E f \in FormsOf(s) : f.p = <<"a">> /\ Len(f.d1) < Len(f.d2)
    /\ Len(result.value) >= 2

\* what the claims call an invalid spec: no '..'; or, split on the first '..',
\* a side without trailing digits, unequal prefixes, or start > end
ClaimInvalid(t) ==
    \/ SepPositions(t) = {}
    \/ LET l == SplitLeft(t)
           r == SplitRight(t)
       IN  \/ AsciiRunLen(l) = 0
           \/ AsciiRunLen(r) = 0
           \/ AsciiPrefix(l) # AsciiPrefix(r)
           \/ DecimalValue(AsciiRun(l)) > DecimalValue(AsciiRun(r))

\* C2: expand_range fails with ValueError if and only if the spec is invalid
\* in one of the four ways, and returns a sequence for every other string.
C2_FailsIffInvalid ==
    Expanded => /\ Rejected <=> ClaimInvalid(s)
                /\ Accepted <=> ~ClaimInvalid(s)

\* s is t + '..' + t
DoubleOf(t) == t \o Sep \o t
Halves == {t \in {SubSeq(s, 1, k) : k \in 0..Len(s)} : s = DoubleOf(t)}

\* C3 as stated: for every token t, expand_range(t + '..' + t) returns the
\* empty sequence without failing.
C3_EveryTokenEmpty ==
    Expanded => \A t \in Halves : result = Return(<<>>)

\* C3 as amended: for every token t that ends with an ASCII digit and does not
\* contain '..', expand_range(t + '..' + t) returns the empty sequence; for a
\* token without any decimal digit, such as 'a', it fails with ValueError.
C3_DigitTokenEmpty ==
    Expanded =>
        \A t \in Halves :
            /\ (AsciiRunLen(t) > 0 /\ SepPositions(t) = {}) => result = Return(<<>>)
            /\ (\A k \in 1..Len(t) : ~IsDigit(t[k])) =>
                   result = Raise("Both endpoints must end with a number")

\* equal endpoints with a prefix and a zero-padded number were expanded
C3_Witness ==
    /\ Expanded
    /\ \E t \in Halves : AsciiRunLen(t) > 0 /\ AsciiPrefix(t) = <<"a">>
    /\ result = Return(<<>>)

\* C4: split_prefix_num returns (s, None, 0) when s does not end with an ASCII
\* digit, and otherwise (prefix, int(r), len(r)) for the maximal trailing run r
\* of ASCII digits, with prefix + r = s.
C4_MaximalAsciiRun ==
    rpc = "split_prefix_num" =>
        IF AsciiRunLen(s) = 0
        THEN token = [prefix |-> s, num |-> None, width |-> 0]
        ELSE /\ token.prefix \o AsciiRun(s) = s
             /\ token.num = DecimalValue(AsciiRun(s))
             /\ token.width = AsciiRunLen(s)

\* C9: every element of an accepted expansion starts with the shared prefix
\* and has length len(prefix) + max(left_width, right_width), so the elements
\* have one length and are pairwise distinct.
C9_CommonWidth ==
    Accepted =>
        LET t1 == split_prefix_num(SplitLeft(s))
            t2 == split_prefix_num(SplitRight(s))
            out == result.value
        IN  /\ t1.prefix = t2.prefix
            /\ \A k \in 1..Len(out) :
                  /\ SubSeq(out[k], 1, Len(t1.prefix)) = t1.prefix
                  /\ Len(out[k]) = Len(t1.prefix) + Max(t1.width, t2.width)
            /\ Cardinality({Len(out[k]) : k \in 1..Len(out)}) <= 1
            /\ Cardinality({out[k] : k \in 1..Len(out)}) = Len(out)

\* an expansion whose right endpoint is wider than its left one: the names
\* below 10 are padded to the width of the right endpoint
C9_Witness ==
    /\ Accepted
    /\ split_prefix_num(SplitLeft(s)).width < split_prefix_num(SplitRight(s)).width
    /\ split_prefix_num(SplitLeft(s)).prefix # <<>>
    /\ Len(result.value) >= 2
    /\ \E k \in 1..Len(result.value) : result.value[k] = <<"a", "0", "1">>

\* C10 as stated: for every string with two or more occurrences of '..',
\* overlapping ones included, expand_range fails.
C10_TwoSeparatorsFail ==
    (Expanded /\ Cardinality(SepPositions(s)) >= 2) => Rejected

\* C10 as amended: for every string in which '..' occurs again after the
\* first occurrence without overlapping it, expand_range fails.
C10_SecondSeparatorFails ==
    (Expanded /\ SepPositions(s) # {} /\ SepPositions(SplitRight(s)) # {}) => Rejected

\* a spec with two separate '..' between three numbers was rejected
C10_Witness ==
    /\ Rejected
    /\ SepPositions(s) # {}
    /\ SepPositions(SplitRight(s)) # {}
    /\ AsciiRunLen(SplitLeft(s)) > 0
    /\ AsciiRunLen(s) > 0
    /\ SplitRight(s)[1] \in AsciiDigits

\* ------------------------------------------------- claims about main

Calls == LET isCall(e) == e.op = "run_convert" IN SelectSeq(log, isCall)
TotalReports == {k \in 1..Len(log) : log[k].text = "Number of files to convert"}
CallPositions == {k \in 1..Len(log) : log[k].op = "run_convert"}

\* the batch run was entered: the print primitive was swapped
Swapped == original_print # Unassigned
Exited == pc \in {"done", "raised"}

\* C5: on every exit path of the batch run (all items converted, no job, or
\* run_convert raising on some item), builtins.print is again the primitive
\* that was active before the swap, and never still the progress-bar writer.
C5_PrintRestored ==
    (Exited /\ Swapped) => builtins_print = entry_print /\ builtins_print # "tqdm.write"

\* the second item raised, main was left with the error, and the print
\* primitive of the host is back
C5_Witness ==
    /\ pc = "raised"
    /\ exc = "ItemProcessingError"
    /\ Len(Calls) = 2
    /\ entry_print = "host_print"
    /\ builtins_print = "host_print"

\* C6: run_convert is invoked on the jobs in job-list order, at most once per
\* job; when no item fails every job is invoked exactly once; when item k
\* fails the error is not caught, no later item is invoked, and the error
\* leaves main only after the print primitive has been restored.
C6_SequentialAbort ==
    /\ Len(Calls) <= Len(Jobs)
    /\ \A k \in 1..Len(Calls) : Calls[k].arg = k
    /\ \A k \in 1..(Len(Calls) - 1) : Calls[k].outcome = "returned"
    /\ pc = "done" =>
          /\ Len(Calls) = Len(Jobs)
          /\ \A k \in 1..Len(Calls) : Calls[k].outcome = "returned"
    /\ (Len(Calls) > 0 /\ Calls[Len(Calls)].outcome = "raised") =>
          /\ exc = "ItemProcessingError"
          /\ pc \in {"finally", "raised"}
          /\ pc = "raised" => builtins_print = entry_print

\* the second of three jobs failed: two invocations, and the error left main
C6_Witness ==
    /\ pc = "raised"
    /\ Len(Jobs) = 3
    /\ Len(Calls) = 2
    /\ Calls[1].outcome = "returned"
    /\ Calls[2].outcome = "raised"

\* C7: the redirection to tqdm.write is installed before the total is
\* reported and before the first item; the total is reported exactly once,
\* before any item; every run_convert runs while the redirection is in force.
C7_RedirectedBeforeLoop ==
    /\ \A k \in TotalReports : log[k].via = "tqdm.write" /\ log[k].arg = Len(Jobs)
    /\ \A k \in CallPositions : log[k].via = "tqdm.write"
    /\ \A k \in CallPositions : \E j \in TotalReports : j < k
    /\ Cardinality(TotalReports) <= 1
    /\ (Swapped /\ pc # "total") => Cardinality(TotalReports) = 1

\* a run that converted two items and ended normally
C7_Witness ==
    /\ pc = "done"
    /\ Len(Calls) >= 2
    /\ Cardinality(TotalReports) = 1

\* C8: when --subdirs expands successfully to a set A, the job list handed
\* to the runner is exactly the order-preserving subsequence of the found
\* files whose top-level segment is in A, for every A expand_range can return.
C8_JobsWithinAllowed ==
    (allowed # NoNames) =>
        LET inA(top) == top \in allowed
        IN  /\ meshes_path = SelectSeq(found, inA)
            /\ \A k \in 1..Len(Calls) : meshes_path[Calls[k].arg] \in allowed

====
